---- MODULE Spec2Model ----
(***************************************************************************)
(* Model of package singleflight (src/errgroup/errgroup.go, lines 73-328): *)
(* Group.Do, Group.DoChan, Group.doCall and Group.Forget, with every       *)
(* section that runs under g.mu as one atomic step and the unlocked parts  *)
(* of doCall (the user function and the deferred function up to           *)
(* c.wg.Done(), which touch only fields nobody reads before wg is done)    *)
(* as one step of its own.                                                 *)
(***************************************************************************)
EXTENDS Integers, Sequences, FiniteSets, TLC

\* Bounds of the model.
MaxCalls == 3          \* number of Do/DoChan calls issued in one behaviour

\* the key of the calls (the tests use one key, "key")
Keys == {"key"}
CallIds == 1..MaxCalls
NoCall == 0            \* a nil *call, an absent map entry

----------------------------------------------------------------------------
\* error values

nil == [kind |-> "nil", value |-> 0]

\* the error a user function returns (errors.New in the function of call i)
someErr(i) == [kind |-> "error", value |-> i]

errGoexit == [kind |-> "errGoexit", value |-> 0]

newPanicError(v) == [kind |-> "panicError", value |-> v]

Result(val, err, shared) == [Val |-> val, Err |-> err, Shared |-> shared]

\* new(call): the zero value of the call struct
NewCall == [wg |-> 0, val |-> 0, err |-> nil, forgotten |-> FALSE,
            dups |-> 0, chans |-> <<>>]

\* what the function given to call i does: returns (i, nil), returns
\* (nil, err_i), panics with the (non-nil) value i, or calls runtime.Goexit
Behaviours == {"return", "error", "panic", "Goexit"}

\* c.val, c.err = fn(): the value a function that returns leaves in c.val
fnVal(i, b) == IF b = "return" THEN i ELSE 0

\* normalReturn = true is reached only when fn returned
normalReturn(b) == b \in {"return", "error"}

\* recovered = true is reached when the inner recover stopped a panic
recovered(b) == b = "panic"

\* c.err as doCall leaves it before c.wg.Done(): fn's error, the recovered
\* panic wrapped by newPanicError, or errGoexit if neither flag was set
fnErr(i, b) ==
  IF ~normalReturn(b) /\ ~recovered(b) THEN errGoexit
  ELSE IF recovered(b) THEN newPanicError(i)
  ELSE IF b = "error" THEN someErr(i) ELSE nil

----------------------------------------------------------------------------
VARIABLES
  m,        \* g.m: key -> the call registered for it (NoCall: no entry)
  mu,       \* g.mu: NoCall when free, else the call whose doCall holds it for good
  c,        \* the call objects, named by the id of the Do/DoChan that made them
  frame,    \* where the doCall of each call object is
  callers,  \* each issued Do/DoChan: op, key, the call object it uses, pc, results
  ch,       \* the channel DoChan made (capacity 1): the Results sent to it
  fatal,    \* values handed to `go panic(e)`: panics nothing can recover
  crashed,  \* the process has died of such a panic
  ncalls,   \* number of Do/DoChan issued
  fnCalls,  \* how many times the function given to each call was run
  fnDid     \* what that run did (a member of Behaviours)

SFvars == <<m, mu, c, frame, callers, ch, fatal, crashed, ncalls, fnCalls, fnDid>>

\* package semaphore (src/semaphore/semaphore.go): one Weighted
VARIABLES
  cur,      \* s.cur
  waiters,  \* s.waiters: the waiter values, front first
  sp,       \* the goroutines using the semaphore: pc, weight asked for, weight held
  ret,      \* the call that returned in the last step: goroutine, weight, result
  ready,    \* the goroutines whose waiter's ready channel has been closed
  ctxDone   \* the goroutines whose last call is an Acquire whose ctx is done

SemVars == <<cur, waiters, sp, ret, ready, ctxDone>>

\* package errgroup (src/errgroup/errgroup.go, lines 1-71): one Group
VARIABLES
  g,        \* the Group: cancel, wg (the WaitGroup counter), errOnce, err
  tasks,    \* the goroutines started by Go, in order: pc and what f returned
  waiter,   \* the goroutine that calls Wait: pc and what Wait returned
  ctx,      \* the derived Context: canceled or not, and the cancel() calls made
  errWrites \* number of assignments to g.err

TGVars == <<g, tasks, waiter, ctx, errWrites>>

vars == <<SFvars, SemVars, TGVars>>

NoCaller == [op |-> "-", key |-> "", c |-> NoCall, pc |-> "-", ret |-> <<>>,
             late |-> FALSE]

SFInit ==
  /\ m = [k \in Keys |-> NoCall]
  /\ mu = NoCall
  /\ c = [i \in CallIds |-> NewCall]
  /\ frame = [i \in CallIds |-> "-"]
  /\ callers = [i \in CallIds |-> NoCaller]
  /\ ch = [i \in CallIds |-> <<>>]
  /\ fatal = {}
  /\ crashed = FALSE
  /\ ncalls = 0
  /\ fnCalls = [i \in CallIds |-> 0]
  /\ fnDid = [i \in CallIds |-> "-"]

\* a goroutine can take g.mu
CanLock == ~crashed /\ mu = NoCall

\* c, ok := g.m[key]
Lookup(key) == m[key]

\* variant of wgWait: the joiner does not wait for the call to be done
wgWaitSkipped(e) == TRUE

\* c.wg.Wait() returns
wgWait(e) == c[e].wg = 0

\* variant of Shared: the maker of the call counts itself as a duplicate
SharedOffByOne(e) == c[e].dups > 1

\* c.dups > 0
Shared(e) == c[e].dups > 0

\* variant of IsPanicError: the type assertion never succeeds
IsPanicErrorNever(err) == FALSE

\* e, ok := c.err.(*panicError)
IsPanicError(err) == err.kind = "panicError"

\* variant of IsGoexit: the comparison with errGoexit never succeeds
IsGoexitNever(err) == FALSE

\* c.err == errGoexit
IsGoexit(err) == err = errGoexit

\* variant of AppendChan: the joiner's channel is not recorded
AppendChanDropped(chans, h) == chans

\* c.chans = append(c.chans, ch)
AppendChan(chans, h) == Append(chans, h)

\* variant of HasChans: the channels of the call are not looked at
HasChansNever(e) == FALSE

\* len(c.chans) > 0
HasChans(e) == Len(c[e].chans) > 0

\* a caller record; late: the call it joined had already done c.wg.Done()
Caller(op, key, e, pc) ==
  [op |-> op, key |-> key, c |-> e, pc |-> pc, ret |-> <<>>,
   late |-> e # NoCall /\ frame[e] # "-" /\ c[e].wg = 0]

\* Do, lines 160-192: look the key up under g.mu; join the call found, or
\* register a new one and go on to run doCall on the caller's goroutine
Do(key) ==
  /\ CanLock /\ ncalls < MaxCalls
  /\ LET i == ncalls + 1
         e == Lookup(key) IN
     /\ ncalls' = i
     /\ IF e # NoCall
        THEN /\ c' = [c EXCEPT ![e].dups = @ + 1]
             /\ callers' = [callers EXCEPT ![i] = Caller("Do", key, e, "Wait")]
             /\ UNCHANGED <<m, frame>>
        ELSE /\ c' = [c EXCEPT ![i] = [NewCall EXCEPT !.wg = 1]]
             /\ m' = [m EXCEPT ![key] = i]
             /\ frame' = [frame EXCEPT ![i] = "fn"]
             /\ callers' = [callers EXCEPT ![i] = Caller("Do", key, i, "doCall")]
  /\ UNCHANGED <<mu, ch, fatal, crashed, fnCalls, fnDid>>
  /\ UNCHANGED <<SemVars, TGVars>>

\* Do, lines 175-183: the joiner wakes from c.wg.Wait()
DoWait(i) ==
  /\ ~crashed
  /\ callers[i].op = "Do" /\ callers[i].pc = "Wait"
  /\ LET e == callers[i].c IN
     /\ wgWait(e)
     /\ IF IsPanicError(c[e].err)
        THEN callers' = [callers EXCEPT ![i].pc = "panic"]
        ELSE IF IsGoexit(c[e].err)
        THEN callers' = [callers EXCEPT ![i].pc = "Goexit"]
        ELSE callers' = [callers EXCEPT ![i].pc = "returned",
                            ![i].ret = <<Result(c[e].val, c[e].err, TRUE)>>]
  /\ UNCHANGED <<m, mu, c, frame, ch, fatal, crashed, ncalls, fnCalls, fnDid>>
  /\ UNCHANGED <<SemVars, TGVars>>

\* Do, line 195: doCall came back to the caller that ran it
DoReturn(i) ==
  /\ ~crashed
  /\ callers[i].op = "Do" /\ callers[i].pc = "return"
  /\ callers' = [callers EXCEPT ![i].pc = "returned",
                    ![i].ret = <<Result(c[i].val, c[i].err, Shared(i))>>]
  /\ UNCHANGED <<m, mu, c, frame, ch, fatal, crashed, ncalls, fnCalls, fnDid>>
  /\ UNCHANGED <<SemVars, TGVars>>

\* DoChan, lines 203-226: make the channel, then join the call found or
\* register a new one and start doCall on a goroutine of its own
DoChan(key) ==
  /\ CanLock /\ ncalls < MaxCalls
  /\ LET i == ncalls + 1
         e == Lookup(key) IN
     /\ ncalls' = i
     /\ IF e # NoCall
        THEN /\ c' = [c EXCEPT ![e].dups = @ + 1,
                               ![e].chans = AppendChan(@, i)]
             /\ callers' = [callers EXCEPT ![i] = Caller("DoChan", key, e, "returned")]
             /\ UNCHANGED <<m, frame>>
        ELSE /\ c' = [c EXCEPT ![i] = [NewCall EXCEPT !.wg = 1, !.chans = <<i>>]]
             /\ m' = [m EXCEPT ![key] = i]
             /\ frame' = [frame EXCEPT ![i] = "fn"]
             /\ callers' = [callers EXCEPT ![i] = Caller("DoChan", key, i, "returned")]
  /\ UNCHANGED <<mu, ch, fatal, crashed, fnCalls, fnDid>>
  /\ UNCHANGED <<SemVars, TGVars>>

\* doCall, lines 232-247 and 288-311: run fn under the inner deferred
\* recover, then the outer deferred function up to c.wg.Done()
doCallFn(e, b) ==
  /\ ~crashed
  /\ frame[e] = "fn"
  /\ fnCalls' = [fnCalls EXCEPT ![e] = @ + 1]
  /\ fnDid' = [fnDid EXCEPT ![e] = b]
  /\ c' = [c EXCEPT ![e].val = fnVal(e, b), ![e].err = fnErr(e, b), ![e].wg = 0]
  /\ frame' = [frame EXCEPT ![e] = "lock"]
  /\ UNCHANGED <<m, mu, callers, ch, fatal, crashed, ncalls>>
  /\ UNCHANGED <<SemVars, TGVars>>

\* variant of DeleteUnlessForgotten: doCall never deletes the key
DeleteSkipped(e, key) == m

\* variant of DeleteUnlessForgotten: the key is deleted whatever c.forgotten is
DeleteAlways(e, key) == [m EXCEPT ![key] = NoCall]

\* doCall, lines 255-257: if !c.forgotten { delete(g.m, key) }
DeleteUnlessForgotten(e, key) ==
  IF ~c[e].forgotten THEN [m EXCEPT ![key] = NoCall] ELSE m

\* the number of times channel h occurs in c.chans
Sends(e, h) == Cardinality({n \in 1..Len(c[e].chans) : c[e].chans[n] = h})

\* doCall, lines 280-283: one send to each channel of c.chans
SendAll(e) ==
  [h \in CallIds |->
     ch[h] \o [n \in 1..Sends(e, h) |-> Result(c[e].val, c[e].err, Shared(e))]]

\* every send of SendAll finds room in its channel: make(chan Result, 1)
CanSendAll(e) == \A h \in CallIds : Len(SendAll(e)[h]) <= 1

\* doCall, lines 248-284: the rest of the deferred function, under g.mu
doCallFinish(e) ==
  /\ CanLock
  /\ frame[e] = "lock"
  /\ m' = DeleteUnlessForgotten(e, callers[e].key)
  /\ IF IsPanicError(c[e].err)
     THEN IF HasChans(e)
          THEN \* go panic(e); select {} with g.mu still held
               /\ fatal' = fatal \cup {c[e].err.value}
               /\ mu' = e
               /\ frame' = [frame EXCEPT ![e] = "select"]
               /\ callers' = IF callers[e].op = "Do"
                             THEN [callers EXCEPT ![e].pc = "select"] ELSE callers
               /\ ch' = ch
          ELSE \* panic(e) unwinds through Do into its caller
               /\ frame' = [frame EXCEPT ![e] = "panic"]
               /\ callers' = [callers EXCEPT ![e].pc = "panic"]
               /\ UNCHANGED <<fatal, mu, ch>>
     ELSE IF IsGoexit(c[e].err)
     THEN \* the goroutine goes on exiting
          /\ frame' = [frame EXCEPT ![e] = "Goexit"]
          /\ callers' = IF callers[e].op = "Do"
                        THEN [callers EXCEPT ![e].pc = "Goexit"] ELSE callers
          /\ UNCHANGED <<fatal, mu, ch>>
     ELSE \* normal return
          /\ CanSendAll(e)
          /\ ch' = SendAll(e)
          /\ frame' = [frame EXCEPT ![e] = "returned"]
          /\ callers' = IF callers[e].op = "Do"
                        THEN [callers EXCEPT ![e].pc = "return"] ELSE callers
          /\ UNCHANGED <<fatal, mu>>
  /\ UNCHANGED <<c, crashed, ncalls, fnCalls, fnDid>>
  /\ UNCHANGED <<SemVars, TGVars>>

\* variant of ForgetMark: Forget leaves c.forgotten alone
ForgetNoMark(key) == c

\* Forget, lines 321-323: if c, ok := g.m[key]; ok { c.forgotten = true }
ForgetMark(key) ==
  IF Lookup(key) # NoCall THEN [c EXCEPT ![Lookup(key)].forgotten = TRUE] ELSE c

\* variant of ForgetDelete: Forget leaves the key in the map
ForgetKeep(key) == m

\* Forget, line 326: delete(g.m, key)
ForgetDelete(key) == [m EXCEPT ![key] = NoCall]

\* Forget, lines 319-328
Forget(key) ==
  /\ CanLock
  /\ c' = ForgetMark(key)
  /\ m' = ForgetDelete(key)
  /\ UNCHANGED <<mu, frame, callers, ch, fatal, crashed, ncalls, fnCalls, fnDid>>
  /\ UNCHANGED <<SemVars, TGVars>>

\* the goroutine started by `go panic(e)` (line 266) panics: the process dies
Crash ==
  /\ ~crashed /\ fatal # {}
  /\ crashed' = TRUE
  /\ UNCHANGED <<m, mu, c, frame, callers, ch, fatal, ncalls, fnCalls, fnDid>>
  /\ UNCHANGED <<SemVars, TGVars>>

SFNext ==
  \/ \E key \in Keys : Do(key)
  \/ \E i \in CallIds : DoWait(i)
  \/ \E i \in CallIds : DoReturn(i)
  \/ \E key \in Keys : DoChan(key)
  \/ \E e \in CallIds, b \in Behaviours : doCallFn(e, b)
  \/ \E e \in CallIds : doCallFinish(e)
  \/ \E key \in Keys : Forget(key)
  \/ Crash

----------------------------------------------------------------------------
\* vocabulary of the properties

\* the call objects made so far
Entries == {e \in CallIds : frame[e] # "-"}

\* the calls that joined call object e (every user of e but its maker)
Joiners(e) == {i \in CallIds : callers[i].c = e /\ i # e}

\* the user function of e is running
InFlight(e) == frame[e] = "fn"

\* doCall of e has run its deferred function to the end
Finished(e) == frame[e] \in {"returned", "panic", "Goexit", "select"}

\* what the one run of e's function handed back, for a run that returned
ProducedVal(e) == IF fnDid[e] = "return" THEN e ELSE 0
ProducedErr(e) == IF fnDid[e] = "return" THEN nil ELSE someErr(e)

\* the Results call i has been given: Do's return values, or what was sent
\* to the channel DoChan returned
Received(i) == IF callers[i].op = "Do" THEN callers[i].ret ELSE ch[i]

----------------------------------------------------------------------------
\* C1: the function of a call object runs at most once and only its maker's
\* function runs (a joiner's own function never does); every Do that has
\* returned, maker or joiner, returns the (value, error) pair which that one
\* run produced.
C1_OneRunSameOutcome ==
  \A i \in CallIds : callers[i].op # "-" =>
    LET e == callers[i].c IN
    /\ fnCalls[i] <= 1
    /\ (i # e => fnCalls[i] = 0)
    /\ (frame[e] # "fn" => fnCalls[e] = 1)
    /\ (callers[i].op = "Do" /\ callers[i].pc = "returned" =>
          /\ fnCalls[e] = 1
          /\ fnDid[e] \in {"return", "error"}
          /\ callers[i].ret[1].Val = ProducedVal(e)
          /\ callers[i].ret[1].Err = ProducedErr(e))

\* a Do that made the call and a Do that joined it have both returned
C1_Witness ==
  \E e \in CallIds : \E i \in Joiners(e) :
    /\ callers[e].op = "Do" /\ callers[e].pc = "returned"
    /\ callers[i].op = "Do" /\ callers[i].pc = "returned"
    /\ callers[i].ret[1].Val = callers[e].ret[1].Val

\* C2 as stated: at most one user function is running for a key at any time
C2_AtMostOneInFlightPerKey ==
  \A k \in Keys :
    Cardinality({e \in CallIds : callers[e].key = k /\ InFlight(e)}) <= 1

\* C2, amended: among the calls Forget has not been called on, at most one
\* user function is running for a key, and it is the call the registry holds
\* for that key (each Forget of a running call allows one more execution).
C2_AtMostOneUnforgottenInFlight ==
  \A k \in Keys :
    /\ Cardinality({e \in CallIds :
          callers[e].key = k /\ InFlight(e) /\ ~c[e].forgotten}) <= 1
    /\ \A e \in CallIds :
          callers[e].key = k /\ InFlight(e) /\ ~c[e].forgotten => m[k] = e

\* a forgotten call and the call that replaced it are both running, with a
\* joiner waiting on the replacement
C2_Witness ==
  \E e1, e2 \in CallIds :
    /\ e1 # e2 /\ callers[e1].key = callers[e2].key
    /\ InFlight(e1) /\ c[e1].forgotten
    /\ InFlight(e2) /\ ~c[e2].forgotten
    /\ Joiners(e2) # {}

\* C3: every Result a caller is given (returned by Do, or sent to a DoChan
\* channel) carries shared = TRUE exactly when some other caller joined the
\* same call object, whether the caller made the call or joined it; so all
\* callers of one call object are given the same shared flag.
C3_SharedIffJoined ==
  \A i \in CallIds : \A n \in 1..Len(Received(i)) :
    Received(i)[n].Shared = (Joiners(callers[i].c) # {})

\* one Do returned unshared, and another call's maker was given shared = TRUE
\* by Do while a DoChan joiner of it was given the same flag
C3_Witness ==
  /\ \E i \in CallIds : /\ callers[i].op = "Do" /\ callers[i].pc = "returned"
                        /\ ~callers[i].ret[1].Shared
  /\ \E e \in CallIds : \E h \in Joiners(e) :
        /\ callers[e].op = "Do" /\ callers[e].pc = "returned"
        /\ callers[e].ret[1].Shared
        /\ callers[h].op = "DoChan" /\ Len(ch[h]) = 1 /\ ch[h][1].Shared

\* C4 as stated: a Do for a key that starts after the execution for that key
\* has completed (its function returned and c.wg.Done() ran), with Forget
\* never called on it, runs its own function and returns that function's
\* outcome, not the stored one.
C4_DoAfterCompletionRunsOwnFn ==
  \A i \in CallIds :
    ( /\ callers[i].op = "Do" /\ callers[i].pc = "returned"
      /\ callers[i].late /\ ~c[callers[i].c].forgotten )
    => /\ fnCalls[i] = 1
       /\ callers[i].ret[1].Val = ProducedVal(i)
       /\ callers[i].ret[1].Err = ProducedErr(i)

\* C5: Forget of a registered call empties the registry slot of its key, so
\* the next Do/DoChan makes a call of its own; doCall of a forgotten call
\* leaves the registry as it is when it finishes; hence a call made after a
\* forgotten one, not itself forgotten and not yet finished, is the one the
\* registry holds, and whoever joined it is given its outcome and not the
\* forgotten call's.
C5_ForgottenCallLeavesSuccessor ==
  /\ [](\A e1, e2 \in Entries :
          ( /\ e1 < e2 /\ callers[e1].key = callers[e2].key
            /\ c[e1].forgotten /\ ~c[e2].forgotten )
          => /\ (frame[e2] \in {"fn", "lock"} => m[callers[e2].key] = e2)
             /\ \A i \in Joiners(e2) : \A n \in 1..Len(Received(i)) :
                   /\ Received(i)[n].Val = ProducedVal(e2)
                   /\ Received(i)[n].Err = ProducedErr(e2))
  /\ [][ /\ \A e \in CallIds :
              (~c[e].forgotten /\ c'[e].forgotten) => m'[callers[e].key] = NoCall
         /\ \A i \in CallIds :
              (callers[i].op = "-" /\ callers'[i].op # "-" /\ m[callers'[i].key] = NoCall)
              => (callers'[i].c = i /\ frame'[i] = "fn" /\ m'[callers'[i].key] = i)
         /\ \A e \in CallIds :
              (c[e].forgotten /\ frame[e] = "lock" /\ frame'[e] # "lock") => m' = m
       ]_SFvars

\* the first call was forgotten in flight and has finished; the second call,
\* made after the Forget, is still running; the third call arrived after the
\* first finished and joined the second
C5_Witness ==
  \E e1, e2, i \in CallIds :
    /\ e1 < e2 /\ e2 < i
    /\ c[e1].forgotten /\ Finished(e1)
    /\ InFlight(e2) /\ m[callers[e2].key] = e2
    /\ callers[i].c = e2 /\ ~callers[i].late

\* C6 as stated: when the function panics, the Do that ran it observes the
\* panic re-raised, every Do that joined observes it re-raised instead of
\* returning, and none is left blocked.
C6_PanicReachesEveryDo ==
  \A e \in Entries : IsPanicError(c[e].err) =>
    /\ c[e].wg = 0
    /\ (callers[e].op = "Do" /\ Finished(e) => callers[e].pc = "panic")
    /\ \A i \in Joiners(e) :
          callers[i].op = "Do" => callers[i].pc \in {"Wait", "panic"}

\* C6, amended: when the function panics, the call is done (none waits on it
\* for ever); every Do that joined observes the panic re-raised instead of
\* returning; the Do that ran it observes the panic re-raised if no DoChan
\* channel is registered on the call, and otherwise never returns: it hands
\* the panic to a new goroutine and parks on select {} with g.mu held.
C6_PanicReachesDoUnlessChans ==
  \A e \in Entries : fnDid[e] = "panic" =>
    /\ c[e].wg = 0
    /\ callers[e].ret = <<>>
    /\ (callers[e].op = "Do" /\ Finished(e) =>
          callers[e].pc = IF Len(c[e].chans) = 0 THEN "panic" ELSE "select")
    /\ (callers[e].op = "Do" /\ callers[e].pc = "select" => mu = e /\ e \in fatal)
    /\ \A i \in Joiners(e) :
          callers[i].op = "Do" => /\ callers[i].pc \in {"Wait", "panic"}
                                  /\ callers[i].ret = <<>>

\* a Do ran a function that panicked and observed the panic, and so did a Do
\* that joined it
C6_Witness ==
  \E e \in Entries : \E i \in Joiners(e) :
    /\ fnDid[e] = "panic"
    /\ callers[e].op = "Do" /\ callers[e].pc = "panic"
    /\ callers[i].op = "Do" /\ callers[i].pc = "panic"

\* C7: when the function panics and a DoChan channel is registered on the
\* call (made by Do or by DoChan), no Result is ever sent to a channel of the
\* call, doCall ends by handing the panic to `go panic(e)` (the fatal path)
\* and parking; and no Result anywhere carries a panicError.
C7_PanicWithChansIsFatal ==
  /\ \A h \in CallIds : \A n \in 1..Len(ch[h]) : ch[h][n].Err.kind # "panicError"
  /\ \A e \in Entries : fnDid[e] = "panic" =>
       /\ \A n \in 1..Len(c[e].chans) : ch[c[e].chans[n]] = <<>>
       /\ (Finished(e) /\ Len(c[e].chans) > 0 =>
             frame[e] = "select" /\ e \in fatal)

\* a Do ran a function that panicked while a DoChan had joined it, and doCall
\* has handed the panic to the fatal path
C7_Witness ==
  \E e \in Entries : \E h \in Joiners(e) :
    /\ fnDid[e] = "panic" /\ callers[e].op = "Do"
    /\ callers[h].op = "DoChan"
    /\ frame[e] = "select" /\ e \in fatal /\ ch[h] = <<>>

\* C8 as stated: when the function calls runtime.Goexit, every joiner is
\* given errGoexit as its error outcome and the exit is not re-raised in it.
C8_GoexitGivenAsError ==
  \A e \in Entries : fnDid[e] = "Goexit" =>
    \A i \in Joiners(e) :
      /\ (callers[i].op = "Do" /\ callers[i].pc # "Wait" =>
            /\ callers[i].pc = "returned"
            /\ callers[i].ret[1].Err = errGoexit)
      /\ (callers[i].op = "DoChan" /\ Finished(e) =>
            /\ Len(ch[i]) = 1
            /\ ch[i][1].Err = errGoexit)

\* C8, amended: when the function calls runtime.Goexit, the call's error is
\* the fixed errGoexit and the exit is never treated as a panic (nothing
\* reaches the fatal path, no caller observes a panic); but no caller is
\* given errGoexit as an outcome: every Do that joined calls runtime.Goexit
\* itself instead of returning, and nothing is sent to the call's channels.
C8_GoexitReRaisedInJoiners ==
  \A e \in Entries : fnDid[e] = "Goexit" =>
    /\ c[e].err = errGoexit /\ c[e].wg = 0
    /\ frame[e] \in {"lock", "Goexit"}
    /\ e \notin fatal
    /\ \A i \in Joiners(e) \cup {e} :
          /\ Received(i) = <<>>
          /\ (callers[i].op = "Do" /\ i # e => callers[i].pc \in {"Wait", "Goexit"})
          /\ (callers[i].op = "Do" /\ i = e => callers[i].pc \in {"doCall", "Goexit"})

\* the function called runtime.Goexit, doCall has finished, a Do that joined
\* has exited the same way and a DoChan that joined has been sent nothing
C8_Witness ==
  \E e \in Entries : \E i, h \in Joiners(e) :
    /\ fnDid[e] = "Goexit" /\ frame[e] = "Goexit"
    /\ callers[i].op = "Do" /\ callers[i].pc = "Goexit"
    /\ callers[h].op = "DoChan" /\ ch[h] = <<>>

\* C9: a DoChan channel is sent nothing before doCall of its call has ended
\* with a normal return, and exactly one Result from then on: the outcome of
\* the one run with the call's shared flag, the same for every channel of
\* the call; no send finds its channel full (so doCall never blocks on one);
\* channels registered after the function returned are served as well.
C9_ExactlyOneResultPerChannel ==
  \A h \in CallIds : callers[h].op = "DoChan" =>
    LET e == callers[h].c IN
    /\ Len(ch[h]) <= 1
    /\ (frame[e] # "returned" => ch[h] = <<>>)
    /\ (frame[e] = "returned" =>
          ch[h] = <<Result(ProducedVal(e), ProducedErr(e), Joiners(e) # {})>>)
    /\ (frame[e] = "lock" => CanSendAll(e))

\* a channel registered before the function returned and one registered after
\* it (but before doCall removed the key) have each been sent the one Result
C9_Witness ==
  \E e \in Entries : \E h1, h2 \in Joiners(e) \cup {e} :
    /\ frame[e] = "returned"
    /\ callers[h1].op = "DoChan" /\ ~callers[h1].late /\ Len(ch[h1]) = 1
    /\ callers[h2].op = "DoChan" /\ callers[h2].late /\ Len(ch[h2]) = 1
    /\ ch[h1] = ch[h2]

----------------------------------------------------------------------------
(***************************************************************************)
(* Model of package semaphore (src/semaphore/semaphore.go): one Weighted   *)
(* made by NewWeighted(Size), used by the goroutines of Procs.  Every      *)
(* section that runs under s.mu is one atomic step; a goroutine blocked in *)
(* Acquire's select (line 67) or on <-ctx.Done() (line 57) waits in a pc.  *)
(***************************************************************************)

\* Bounds of the model.
Size == 2              \* the n given to NewWeighted

\* the goroutines using the semaphore
Procs == {"g1", "g2", "g3"}
\* the weights asked for: 1..Size, and Size + 1, which can never be granted
Weights == 1..(Size + 1)

\* a goroutine outside any call, and the weight it holds
Idle(held) == [pc |-> "idle", n |-> 0, held |-> held]
\* a goroutine inside Acquire(ctx, n), holding held from earlier calls
InAcquire(pc, n, held) == [pc |-> pc, n |-> n, held |-> held]
\* the call of p with weight n has returned res / the step has not ended a call
Returns(p, n, res) == [p |-> p, n |-> n, res |-> res]
NoReturn == [p |-> "-", n |-> 0, res |-> "-"]

\* no Release has panicked (line 123): the panic is not recovered and ends
\* the program
Running == ret.res # "panic"

\* NewWeighted, lines 25-28: w := &Weighted{size: n}
SemInit ==
  /\ cur = 0
  /\ waiters = <<>>
  /\ sp = [p \in Procs |-> Idle(0)]
  /\ ret = NoReturn
  /\ ready = {}
  /\ ctxDone = {}

\* waiter{n: n, ready: ready}: the ready channel is named by its goroutine
Waiter(n, p) == [n |-> n, ready |-> p]

\* the goroutines whose waiter is in the list
Queued == {waiters[k].ready : k \in 1..Len(waiters)}

\* variant of FastPath: the length of the waiter list is not looked at
FastPathIgnoringQueue(n) == Size - cur >= n

\* Acquire, line 48: s.size-s.cur >= n && s.waiters.Len() == 0
FastPath(n) == Size - cur >= n /\ Len(waiters) = 0

\* variant of TrySuccess: the length of the waiter list is not looked at
TrySuccessIgnoringQueue(n) == Size - cur >= n

\* TryAcquire, line 106: success := s.size-s.cur >= n && s.waiters.Len() == 0
TrySuccess(n) == Size - cur >= n /\ Len(waiters) = 0

\* variant of Doomed: a weight above the size is queued like any other
DoomedNever(n) == FALSE

\* Acquire, line 54: n > s.size
Doomed(n) == n > Size

\* variant of ReadyClosed: the inner select always takes its default case
ReadyClosedNever(p) == FALSE

\* Acquire, line 77: case <-ready
ReadyClosed(p) == p \in ready

\* variant of RemoveWaiter: the element stays in the list
RemoveWaiterNot(ws, p) == ws

\* Acquire, line 86: s.waiters.Remove(elem)
RemoveWaiter(ws, p) == SelectSeq(ws, LAMBDA w : w.ready # p)

\* variant of notifyWaiters: a waiter that does not fit is passed over and
\* the waiters behind it are tried
RECURSIVE notifyWaitersSkipping(_, _)
notifyWaitersSkipping(cu, ws) ==
  IF ws = <<>> THEN [cur |-> cu, waiters |-> ws, closed |-> {}]
  ELSE IF Size - cu < Head(ws).n
  THEN LET r == notifyWaitersSkipping(cu, Tail(ws))
       IN  [r EXCEPT !.waiters = <<Head(ws)>> \o @]
  ELSE LET r == notifyWaitersSkipping(cu + Head(ws).n, Tail(ws))
       IN  [r EXCEPT !.closed = @ \cup {Head(ws).ready}]

\* notifyWaiters, lines 132-167, run on s.cur = cu and s.waiters = ws: what
\* it leaves in s.cur and s.waiters, and the ready channels it closed
RECURSIVE notifyWaiters(_, _)
notifyWaiters(cu, ws) ==
  IF ws = <<>> THEN [cur |-> cu, waiters |-> ws, closed |-> {}]
  ELSE IF Size - cu < Head(ws).n
  THEN [cur |-> cu, waiters |-> ws, closed |-> {}]
  ELSE LET r == notifyWaiters(cu + Head(ws).n, Tail(ws))
       IN  [r EXCEPT !.closed = @ \cup {Head(ws).ready}]

\* Acquire, lines 47-65, called with a ctx that is not done yet: the fast
\* path, the doomed request, or a new waiter
Acquire(p, n) ==
  /\ Running
  /\ sp[p].pc = "idle"
  /\ IF FastPath(n)
     THEN /\ cur' = cur + n
          /\ sp' = [sp EXCEPT ![p] = Idle(sp[p].held + n)]
          /\ ret' = Returns(p, n, "nil")
          /\ UNCHANGED waiters
     ELSE IF Doomed(n)
     THEN /\ sp' = [sp EXCEPT ![p] = InAcquire("doomed", n, sp[p].held)]
          /\ ret' = NoReturn
          /\ UNCHANGED <<cur, waiters>>
     ELSE /\ waiters' = Append(waiters, Waiter(n, p))
          /\ sp' = [sp EXCEPT ![p] = InAcquire("select", n, sp[p].held)]
          /\ ret' = NoReturn
          /\ UNCHANGED cur
  /\ ctxDone' = ctxDone \ {p}
  /\ UNCHANGED ready
  /\ UNCHANGED <<SFvars, TGVars>>

\* the ctx given to the Acquire of p becomes done (cancel or deadline)
CtxCancel(p) ==
  /\ Running
  /\ sp[p].pc \in {"select", "doomed"}
  /\ p \notin ctxDone
  /\ ctxDone' = ctxDone \cup {p}
  /\ ret' = NoReturn
  /\ UNCHANGED <<cur, waiters, sp, ready>>
  /\ UNCHANGED <<SFvars, TGVars>>

\* Acquire, lines 57-58: <-ctx.Done(); return ctx.Err()
AcquireDoomed(p) ==
  /\ Running
  /\ sp[p].pc = "doomed"
  /\ p \in ctxDone
  /\ sp' = [sp EXCEPT ![p] = Idle(sp[p].held)]
  /\ ret' = Returns(p, sp[p].n, "ctxErr")
  /\ UNCHANGED <<cur, waiters, ready, ctxDone>>
  /\ UNCHANGED <<SFvars, TGVars>>

\* Acquire, lines 97-98: the outer select takes case <-ready
AcquireReady(p) ==
  /\ Running
  /\ sp[p].pc = "select"
  /\ p \in ready
  /\ sp' = [sp EXCEPT ![p] = Idle(sp[p].held + sp[p].n)]
  /\ ret' = Returns(p, sp[p].n, "nil")
  /\ ready' = ready \ {p}
  /\ UNCHANGED <<cur, waiters, ctxDone>>
  /\ UNCHANGED <<SFvars, TGVars>>

\* Acquire, lines 70-72: the outer select takes case <-ctx.Done()
AcquireCtxDone(p) ==
  /\ Running
  /\ sp[p].pc = "select"
  /\ p \in ctxDone
  /\ sp' = [sp EXCEPT ![p].pc = "cancel"]
  /\ ret' = NoReturn
  /\ UNCHANGED <<cur, waiters, ready, ctxDone>>
  /\ UNCHANGED <<SFvars, TGVars>>

\* Acquire, lines 73-94: under s.mu, either the waiter was granted in the
\* meantime, or it is removed and, if it was at the front, the rest notified
AcquireCancel(p) ==
  /\ Running
  /\ sp[p].pc = "cancel"
  /\ IF ReadyClosed(p)
     THEN /\ sp' = [sp EXCEPT ![p] = Idle(sp[p].held + sp[p].n)]
          /\ ret' = Returns(p, sp[p].n, "nil")
          /\ UNCHANGED <<cur, waiters>>
          /\ ready' = ready \ {p}
     ELSE LET isFront == waiters # <<>> /\ Head(waiters).ready = p
              rest == RemoveWaiter(waiters, p)
              r == IF isFront /\ Size > cur
                   THEN notifyWaiters(cur, rest)
                   ELSE [cur |-> cur, waiters |-> rest, closed |-> {}]
          IN  /\ cur' = r.cur
              /\ waiters' = r.waiters
              /\ ready' = ready \cup r.closed
              /\ sp' = [sp EXCEPT ![p] = Idle(sp[p].held)]
              /\ ret' = Returns(p, sp[p].n, "ctxErr")
  /\ UNCHANGED ctxDone
  /\ UNCHANGED <<SFvars, TGVars>>

\* TryAcquire, lines 104-112
TryAcquire(p, n) ==
  /\ Running
  /\ sp[p].pc = "idle"
  /\ IF TrySuccess(n)
     THEN /\ cur' = cur + n
          /\ sp' = [sp EXCEPT ![p] = Idle(sp[p].held + n)]
          /\ ret' = Returns(p, n, "true")
     ELSE /\ cur' = cur
          /\ sp' = [sp EXCEPT ![p] = Idle(sp[p].held)]
          /\ ret' = Returns(p, n, "false")
  /\ ctxDone' = ctxDone \ {p}
  /\ UNCHANGED <<waiters, ready>>
  /\ UNCHANGED <<SFvars, TGVars>>

\* Release, lines 117-126, called by p with weight n; held is what p holds
\* once the call is over
Release(p, n, held) ==
  /\ Running
  /\ sp[p].pc = "idle"
  /\ IF cur - n < 0
     THEN \* s.mu.Unlock(); panic("semaphore: released more than held")
          /\ cur' = cur - n
          /\ sp' = [sp EXCEPT ![p] = Idle(held)]
          /\ ret' = Returns(p, n, "panic")
          /\ UNCHANGED <<waiters, ready>>
     ELSE LET r == notifyWaiters(cur - n, waiters)
          IN  /\ cur' = r.cur
              /\ waiters' = r.waiters
              /\ ready' = ready \cup r.closed
              /\ sp' = [sp EXCEPT ![p] = Idle(held)]
              /\ ret' = Returns(p, n, "done")
  /\ ctxDone' = ctxDone \ {p}
  /\ UNCHANGED <<SFvars, TGVars>>

\* the weight acquired by the goroutines of S together: what their calls
\* returned with, and what notifyWaiters has added to s.cur for them
RECURSIVE Allocated(_)
Allocated(S) ==
  IF S = {} THEN 0
  ELSE LET p == CHOOSE q \in S : TRUE
       IN  sp[p].held + (IF p \in ready THEN sp[p].n ELSE 0) + Allocated(S \ {p})

\* a goroutine gives back weight it holds, all of it or a part
ReleaseHeld(p, n) ==
  /\ n <= sp[p].held
  /\ Release(p, n, sp[p].held - n)

\* a goroutine calls Release with more than it holds and more than s.cur
ReleaseUnheld(p, n) ==
  /\ n > sp[p].held
  /\ cur - n < 0
  /\ Release(p, n, 0)

SemNext ==
  \/ \E p \in Procs, n \in Weights : Acquire(p, n)
  \/ \E p \in Procs : CtxCancel(p)
  \/ \E p \in Procs : AcquireDoomed(p)
  \/ \E p \in Procs : AcquireReady(p)
  \/ \E p \in Procs : AcquireCtxDone(p)
  \/ \E p \in Procs : AcquireCancel(p)
  \/ \E p \in Procs, n \in Weights : TryAcquire(p, n)
  \/ \E p \in Procs, n \in Weights : ReleaseHeld(p, n)
  \/ \E p \in Procs, n \in Weights : ReleaseUnheld(p, n)

----------------------------------------------------------------------------
(***************************************************************************)
(* Model of package errgroup (src/errgroup/errgroup.go, lines 1-71).       *)
(***************************************************************************)

\* Bounds of the model.
MaxTasks == 3          \* number of Go calls in one behaviour

\* one id per call of Go, in the order the calls are made
TaskIds == 1..MaxTasks

\* the calls of Go made so far
Started == DOMAIN tasks

\* before WithContext or the declaration of a zero Group
TGInit ==
  /\ g = [made |-> FALSE, cancel |-> FALSE, wg |-> 0,
          errOnce |-> "new", first |-> 0, err |-> nil]
  /\ tasks = <<>>
  /\ waiter = [pc |-> "-", ret |-> nil]
  /\ ctx = [canceled |-> FALSE, calls |-> 0]
  /\ errWrites = 0

\* the tasks whose function has returned a non-nil error
Failed == {t \in Started : tasks[t].err # nil}

\* variant of gWgWait: Wait does not wait for the counter
gWgWaitSkipped == TRUE

\* Wait, line 44: g.wg.Wait() returns
gWgWait == g.wg = 0

\* variant of errOnceFirst: every call of errOnce.Do runs its function
errOnceAlways == TRUE

\* Go, line 62: g.errOnce.Do runs the function of its first call only
errOnceFirst == g.errOnce = "new"

\* variant of HasCancel: the cancel function is never called
HasCancelNever == FALSE

\* lines 45 and 65: g.cancel != nil
HasCancel == g.cancel

\* cancel(), the CancelFunc of context.WithCancel: the first call cancels
\* the derived Context, later calls do nothing
Canceled == [canceled |-> TRUE, calls |-> ctx.calls + 1]

\* WithContext, lines 36-39, with a ctx that is never canceled itself
\* (context.Background(), as the comment on lines 33-35 asks)
WithContext ==
  /\ ~g.made
  /\ g' = [g EXCEPT !.made = TRUE, !.cancel = TRUE]
  /\ UNCHANGED <<tasks, waiter, ctx, errWrites>>
  /\ UNCHANGED <<SFvars, SemVars>>

\* var g errgroup.Group: "A zero Group is valid and does not cancel on error"
ZeroGroup ==
  /\ ~g.made
  /\ g' = [g EXCEPT !.made = TRUE]
  /\ UNCHANGED <<tasks, waiter, ctx, errWrites>>
  /\ UNCHANGED <<SFvars, SemVars>>

\* Go, lines 55-58: g.wg.Add(1) and the go statement; called before Wait, or
\* by a task that is running
Go ==
  /\ g.made
  /\ Len(tasks) < MaxTasks
  /\ waiter.pc = "-" \/ \E u \in Started : tasks[u].pc = "f"
  /\ g' = [g EXCEPT !.wg = @ + 1]
  /\ tasks' = Append(tasks, [pc |-> "f", err |-> nil])
  /\ UNCHANGED <<waiter, ctx, errWrites>>
  /\ UNCHANGED <<SFvars, SemVars>>

\* Go, line 61: f() returns err
fReturns(t, err) ==
  /\ t \in Started
  /\ tasks[t].pc = "f"
  /\ tasks' = [tasks EXCEPT ![t] = [pc |-> IF err = nil THEN "defer" ELSE "once",
                                     err |-> err]]
  /\ UNCHANGED <<g, waiter, ctx, errWrites>>
  /\ UNCHANGED <<SFvars, SemVars>>

\* Go, line 62: g.errOnce.Do(...): the first caller runs the function, a
\* caller that finds it running waits, a later caller returns at once
errOnceDo(t) ==
  /\ t \in Started
  /\ tasks[t].pc = "once"
  /\ IF errOnceFirst
     THEN /\ g' = [g EXCEPT !.errOnce = "running", !.first = t]
          /\ tasks' = [tasks EXCEPT ![t].pc = "setErr"]
     ELSE /\ g.errOnce = "done"
          /\ tasks' = [tasks EXCEPT ![t].pc = "defer"]
          /\ UNCHANGED g
  /\ UNCHANGED <<waiter, ctx, errWrites>>
  /\ UNCHANGED <<SFvars, SemVars>>

\* Go, line 64: g.err = err
SetErr(t) ==
  /\ t \in Started
  /\ tasks[t].pc = "setErr"
  /\ g' = [g EXCEPT !.err = tasks[t].err]
  /\ errWrites' = errWrites + 1
  /\ tasks' = [tasks EXCEPT ![t].pc = "cancel"]
  /\ UNCHANGED <<waiter, ctx>>
  /\ UNCHANGED <<SFvars, SemVars>>

\* Go, lines 65-68: if g.cancel != nil { g.cancel() }, and errOnce.Do returns
CancelOnError(t) ==
  /\ t \in Started
  /\ tasks[t].pc = "cancel"
  /\ ctx' = IF HasCancel THEN Canceled ELSE ctx
  /\ g' = [g EXCEPT !.errOnce = "done"]
  /\ tasks' = [tasks EXCEPT ![t].pc = "defer"]
  /\ UNCHANGED <<waiter, errWrites>>
  /\ UNCHANGED <<SFvars, SemVars>>

\* Go, line 59: the deferred g.wg.Done()
wgDone(t) ==
  /\ t \in Started
  /\ tasks[t].pc = "defer"
  /\ g' = [g EXCEPT !.wg = @ - 1]
  /\ tasks' = [tasks EXCEPT ![t].pc = "done"]
  /\ UNCHANGED <<waiter, ctx, errWrites>>
  /\ UNCHANGED <<SFvars, SemVars>>

\* Wait is called, line 43
Wait ==
  /\ g.made
  /\ waiter.pc = "-"
  /\ waiter' = [waiter EXCEPT !.pc = "wg.Wait"]
  /\ UNCHANGED <<g, tasks, ctx, errWrites>>
  /\ UNCHANGED <<SFvars, SemVars>>

\* Wait, line 44: g.wg.Wait() returns
WaitWakes ==
  /\ waiter.pc = "wg.Wait"
  /\ gWgWait
  /\ waiter' = [waiter EXCEPT !.pc = "cancel"]
  /\ UNCHANGED <<g, tasks, ctx, errWrites>>
  /\ UNCHANGED <<SFvars, SemVars>>

\* Wait, lines 45-48: if g.cancel != nil { g.cancel() }; return g.err
WaitReturns ==
  /\ waiter.pc = "cancel"
  /\ ctx' = IF HasCancel THEN Canceled ELSE ctx
  /\ waiter' = [pc |-> "returned", ret |-> g.err]
  /\ UNCHANGED <<g, tasks, errWrites>>
  /\ UNCHANGED <<SFvars, SemVars>>

\* what the task functions return: nil, or an error of their own
TaskErrs(t) == {nil, someErr(t)}

TGNext ==
  \/ WithContext
  \/ ZeroGroup
  \/ Go
  \/ \E t \in TaskIds : \E err \in TaskErrs(t) : fReturns(t, err)
  \/ \E t \in TaskIds : errOnceDo(t)
  \/ \E t \in TaskIds : SetErr(t)
  \/ \E t \in TaskIds : CancelOnError(t)
  \/ \E t \in TaskIds : wgDone(t)
  \/ Wait
  \/ WaitWakes
  \/ WaitReturns

----------------------------------------------------------------------------
\* the three packages start together and each specification runs one of them

Init == SFInit /\ SemInit /\ TGInit

SFSpec == Init /\ [][SFNext]_vars

\* A goroutine that can take its next step takes it: a joiner woken from
\* c.wg.Wait(), doCall after fn and once g.mu is free, and the goroutine of
\* `go panic(e)`; the user function comes to an end.  Nothing is assumed
\* about new calls of Do, DoChan and Forget.
SFFairness ==
  /\ \A i \in CallIds : WF_vars(DoWait(i)) /\ WF_vars(DoReturn(i))
  /\ \A e \in CallIds : WF_vars(\E b \in Behaviours : doCallFn(e, b))
  /\ \A e \in CallIds : WF_vars(doCallFinish(e))
  /\ WF_vars(Crash)

SFLiveSpec == Init /\ [][SFNext]_vars /\ SFFairness

SemSpec == Init /\ [][SemNext]_vars

TGSpec == Init /\ [][TGNext]_vars

\* The semaphore used as its documentation asks: a goroutine calls Acquire
\* only while it holds nothing, and Release only for weight it holds.
AcquireUnheld(p, n) ==
  /\ sp[p].held = 0
  /\ Acquire(p, n)

SemLiveNext ==
  \/ \E p \in Procs, n \in Weights : AcquireUnheld(p, n)
  \/ \E p \in Procs : CtxCancel(p)
  \/ \E p \in Procs : AcquireDoomed(p)
  \/ \E p \in Procs : AcquireReady(p)
  \/ \E p \in Procs : AcquireCtxDone(p)
  \/ \E p \in Procs : AcquireCancel(p)
  \/ \E p \in Procs, n \in Weights : TryAcquire(p, n)
  \/ \E p \in Procs, n \in Weights : ReleaseHeld(p, n)

\* A goroutine that can take its next step inside Acquire takes it (the Go
\* scheduler runs every runnable goroutine), and a goroutine that holds
\* weight goes on releasing it; nothing is assumed about new calls or about
\* when a ctx is cancelled.
SemFairness ==
  \A p \in Procs :
    /\ WF_vars(AcquireReady(p))
    /\ WF_vars(AcquireCtxDone(p))
    /\ WF_vars(AcquireCancel(p))
    /\ WF_vars(\E n \in Weights : ReleaseHeld(p, n))

SemLiveSpec == Init /\ [][SemLiveNext]_vars /\ SemFairness

----------------------------------------------------------------------------
(***************************************************************************)
(* Claims about the semaphore.                                             *)
(***************************************************************************)

\* the goroutines whose waiter is in the list after the step
QueuedNext == {waiters'[k].ready : k \in 1..Len(waiters')}

\* C11: a queued waiter is never granted while a waiter enqueued before it is
\* still in the queue: in every step, each waiter in front of a waiter whose
\* ready channel the step closes has left the queue by the end of the step
C11_GrantsInQueueOrder ==
  [][\A k \in 1..Len(waiters) :
       waiters[k].ready \in ready' \ ready
         => \A j \in 1..(k - 1) : waiters[j].ready \notin QueuedNext]_vars

\* C11: notifyWaiters has stopped at a head that does not fit although the
\* waiter behind it does: a Release returned to a goroutine that still holds
\* weight, and the second waiter is still queued
C11_Witness ==
  /\ Len(waiters) >= 2
  /\ Size - cur < waiters[1].n
  /\ Size - cur >= waiters[2].n
  /\ \E p \in Procs : sp[p] = Idle(1) /\ ret = Returns(p, 1, "done")

\* C12: TryAcquire(n) returns true exactly when n <= size - cur and no waiter
\* is queued; when it returns true s.cur has grown by n, when it returns
\* false s.cur is what it was; the list of waiters is never touched
C12_TryAcquireIffRoomAndNoQueue ==
  [][\A p \in Procs, n \in Weights :
       TryAcquire(p, n) =>
         /\ ret' \in {Returns(p, n, "true"), Returns(p, n, "false")}
         /\ ret'.res = "true" <=> (n <= Size - cur /\ Len(waiters) = 0)
         /\ ret'.res = "true" => cur' = cur + n /\ sp'[p].held = sp[p].held + n
         /\ ret'.res = "false" => cur' = cur /\ sp'[p].held = sp[p].held
         /\ waiters' = waiters]_vars

\* C12: a TryAcquire has returned false although a unit is free, because a
\* waiter is queued
C12_Witness ==
  /\ ret.res = "false"
  /\ waiters # <<>>
  /\ Size - cur >= 1

\* C13: a waiter that was granted before it handles its cancellation returns
\* nil from Acquire and its weight stays in s.cur; Acquire returns the
\* cancellation error only to a caller whose weight is not part of s.cur
\* (its ready channel was not closed)
C13_GrantBeatsCancellation ==
  [][\A p \in Procs :
       /\ (sp[p].pc = "cancel" /\ p \in ready /\ sp'[p] # sp[p])
            => /\ ret' = Returns(p, sp[p].n, "nil")
               /\ sp'[p] = Idle(sp[p].held + sp[p].n)
               /\ cur' = cur
       /\ ret' = Returns(p, sp[p].n, "ctxErr")
            => p \notin ready /\ p \notin ready' /\ sp'[p] = Idle(sp[p].held)]_vars

\* C13: an Acquire whose ctx was done and whose select had taken the
\* ctx.Done() case has returned nil, and holds its weight
C13_Witness ==
  \E p \in Procs : ret.p = p /\ ret.res = "nil" /\ p \in ctxDone /\ sp[p].held > 0

\* C14: when Acquire returns the cancellation error, the caller's waiter is
\* no longer in the list, the waiters that remain are in the order they had,
\* and the call has added nothing to s.cur: what the caller holds is what it
\* held before the call, and s.cur has changed by what the step granted to
\* the other goroutines
C14_CancelledLeavesNoTrace ==
  [][\A p \in Procs :
       ret'.p = p /\ ret'.res = "ctxErr" =>
         /\ p \notin QueuedNext
         /\ p \notin ready'
         /\ waiters' = SelectSeq(waiters, LAMBDA w : w.ready \in QueuedNext)
         /\ sp'[p] = Idle(sp[p].held)
         /\ cur' - cur = Allocated(Procs \ {p})' - Allocated(Procs \ {p})]_vars

\* C14: a queued Acquire has returned the cancellation error and two waiters
\* are left in the list
C14_Witness ==
  /\ ret.res = "ctxErr"
  /\ ret.n <= Size
  /\ Len(waiters) >= 2

\* C15: in every reachable state (s.mu is free between the steps),
\* 0 <= s.cur <= s.size, the state a Release of more weight than is held
\* leaves behind included
C15_CurWithinSize ==
  0 <= cur /\ cur <= Size

\* C17: an Acquire of more than s.size is never put in the list of waiters
\* and never changes s.cur, so it holds nobody up; it returns only once its
\* ctx is done, and then with the error of the ctx
C17_OversizedOnlyWaitsForCtx ==
  [][\A p \in Procs :
       /\ \A n \in Weights :
            n > Size /\ Acquire(p, n)
              => cur' = cur /\ waiters' = waiters /\ ret' = NoReturn
       /\ sp[p].n > Size /\ sp'[p] # sp[p]
            => /\ p \in ctxDone
               /\ ret' = Returns(p, sp[p].n, "ctxErr")
               /\ sp'[p] = Idle(sp[p].held)
               /\ cur' = cur /\ waiters' = waiters /\ ready' = ready
       /\ sp'[p].n > Size => p \notin QueuedNext]_vars

\* C17: an Acquire of more than s.size has returned the error of its ctx
\* while other goroutines are queued
C17_Witness ==
  /\ ret.res = "ctxErr"
  /\ ret.n > Size
  /\ waiters # <<>>

\* C16: while the holders go on releasing and the waiters in front are sooner
\* or later granted or cancelled, a waiter of weight <= s.size is granted
\* unless its ctx is cancelled; later requests, however small, queue up
\* behind it and cannot postpone it for ever
C16_QueuedWaiterIsGranted ==
  \A p \in Procs :
    (sp[p].pc = "select" /\ p \notin ready) ~> (p \in ready \/ p \in ctxDone)

\* C16: the waiter at the front has been granted while a later waiter, which
\* asked for less, is still queued
C16_Witness ==
  \E p \in ready :
    /\ sp[p].pc = "select"
    /\ p \notin ctxDone
    /\ waiters # <<>>
    /\ Head(waiters).n < sp[p].n

----------------------------------------------------------------------------
(***************************************************************************)
(* Claims about errgroup.Group.                                            *)
(***************************************************************************)

\* C18: Wait does not get past g.wg.Wait() before every task started with Go
\* has finished; the step in which a task fails, and the steps in which it
\* records its error, change neither a sibling task nor the caller of Wait
C18_WaitOutlastsEveryTask ==
  [][/\ waiter'.pc \in {"cancel", "returned"}
          => \A t \in DOMAIN tasks' : tasks'[t].pc = "done"
     /\ \A t \in Started :
          tasks[t].pc \in {"f", "once", "setErr", "cancel"} /\ tasks'[t] # tasks[t]
            => /\ waiter' = waiter
               /\ \A u \in Started \ {t} : tasks'[u] = tasks[u]
     /\ \A t \in Started :
          tasks[t].pc = "done" => tasks'[t] = tasks[t]]_vars

\* C18: Wait has returned after a task failed, and a sibling of that task
\* has run to its end and returned nil
C18_Witness ==
  /\ waiter.pc = "returned"
  /\ Failed # {}
  /\ \E t \in Started \ Failed : tasks[t].pc = "done"

\* C19: g.err is assigned at most once; Wait returns nil if no task failed,
\* else the error of the task that got through errOnce first (with one
\* failing task, its error), and no later failure replaces it
C19_FirstErrorIsKept ==
  /\ errWrites <= 1
  /\ g.first # 0 => g.first \in Failed
  /\ errWrites = 1 => g.err = tasks[g.first].err
  /\ waiter.pc = "returned" =>
       IF Failed = {}
       THEN waiter.ret = nil
       ELSE g.first \in Failed /\ waiter.ret = tasks[g.first].err
  /\ waiter.pc = "returned" =>
       \A t \in Started : Failed = {t} => waiter.ret = someErr(t)

\* C19: several tasks failed and Wait has returned the error of the one that
\* got through errOnce first, which is not the one that was started first
C19_Witness ==
  /\ waiter.pc = "returned"
  /\ Cardinality(Failed) >= 2
  /\ waiter.ret = someErr(g.first)
  /\ \E t \in Failed : t < g.first

\* C20: the Context of a group made by WithContext is not canceled while no
\* task has failed and Wait has not returned; it is canceled once the first
\* failing task is through errOnce.Do, and once Wait has returned; once
\* canceled it stays so.  Nothing is canceled for a zero Group.
C20_CanceledOnFirstErrorOrWait ==
  [][/\ ctx'.canceled => Failed' # {} \/ waiter'.pc = "returned"
     /\ g'.cancel /\ g'.errOnce = "done" => ctx'.canceled
     /\ g'.cancel =>
          \A t \in Failed' : tasks'[t].pc \in {"defer", "done"} => ctx'.canceled
     /\ g'.cancel /\ waiter'.pc = "returned" => ctx'.canceled
     /\ ctx.canceled => ctx'.canceled
     /\ ~g'.cancel => ~ctx'.canceled /\ ctx'.calls = 0]_vars

\* C20: the Context was canceled by the first failing task, and the cancel()
\* of Wait, which has returned, was the second call
C20_Witness ==
  /\ g.cancel
  /\ ctx.canceled
  /\ ctx.calls = 2
  /\ waiter.pc = "returned"

----------------------------------------------------------------------------
\* C21: no wake-up is lost: in every reachable state (s.mu is free between
\* the steps), if a waiter is queued then the weight of the waiter at the
\* front is larger than the free capacity s.size - s.cur
C21_HeadDoesNotFit ==
  waiters # <<>> => Head(waiters).n > Size - cur

\* C22: when the function of a call ends in runtime.Goexit, no Do on that
\* call returns anything (so none returns a non-nil error); every Do on it,
\* the one that ran the function and the ones that joined, ends by exiting
\* its goroutine instead of waiting for ever (or the process has died of
\* another call's panic); and the call leaves the registry and is never in
\* it once doCall is over, so a later call for the key is not held up by it
C22_GoexitEndsEveryDo ==
  /\ [](\A e \in Entries : fnDid[e] = "Goexit" =>
          /\ \A i \in Joiners(e) \cup {e} :
               callers[i].op = "Do" =>
                 callers[i].pc # "returned" /\ callers[i].ret = <<>>
          /\ frame[e] = "Goexit" => m[callers[e].key] # e)
  /\ \A i \in CallIds :
       (callers[i].op = "Do" /\ fnDid[callers[i].c] = "Goexit")
         ~> (callers[i].pc = "Goexit" \/ crashed)
  /\ \A e \in CallIds :
       (fnDid[e] = "Goexit")
         ~> (crashed \/ (e \in Entries /\ m[callers[e].key] # e))

\* C22: the function called runtime.Goexit; the Do that ran it and a Do that
\* joined it have both exited, doCall has removed the call from the registry
\* (Forget was not called on it), and a later Do for the key has made a call
\* of its own
C22_Witness ==
  \E e, i, e2 \in CallIds :
    /\ fnDid[e] = "Goexit" /\ frame[e] = "Goexit" /\ ~c[e].forgotten
    /\ callers[e].op = "Do" /\ callers[e].pc = "Goexit"
    /\ i # e /\ callers[i].op = "Do" /\ callers[i].c = e /\ callers[i].pc = "Goexit"
    /\ callers[e2].op = "Do" /\ callers[e2].c = e2 /\ e2 > i
    /\ callers[e2].key = callers[e].key

====
